---------------------------- MODULE Spec2Model ----------------------------
(***************************************************************************)
(* link-milestone (src/main.go): on a merged pull request, pick the lowest *)
(* open version milestone and set it on the PR and on the issue the PR's   *)
(* body says it closes.                                                    *)
(*                                                                         *)
(* Go strings are modelled as sequences of one-character strings, so that  *)
(* slicing (title[1:]), strings.Split, the three regular expressions,      *)
(* strconv.Atoi and the byte-wise string order are computed, not assumed.  *)
(* A Go pointer that may be nil is a sequence of length 0 (nil) or 1.      *)
(***************************************************************************)
EXTENDS Integers, Sequences, FiniteSets, TLC

VARIABLES
    ghMilestones,   \* tracker: the list client.Issues.ListMilestones returns
    records,        \* tracker: issue/PR number -> [state, milestone, body]
    pc,             \* position of run(): "start", "applyPR", "extract", "applyLI", "exited"
    msRes,          \* what getMilestoneId returned to run(): [id, err]
    liRes,          \* what getLinkedIssue returned to run(): [kind, id, inspected]
    calls,          \* tracker calls the current run has made, in order
    exitCode,       \* process exit status of the current run, once pc = "exited"
    runs,           \* number of runs started so far
    okRuns,         \* number of runs that have ended with exit status 0
    setCount        \* issue/PR number -> number of Edit calls that set its milestone

vars == <<ghMilestones, records, pc, msRes, liRes, calls, exitCode, runs, okRuns, setCount>>

None == << >>
Some(x) == <<x>>

-----------------------------------------------------------------------------
(* Characters and strings *)

\* The characters the model's strings use, in ASCII order.
Ascii ==
    <<" ", "#", ",", ".", "0", "1", "2", "3", "4", "5", "6", "7", "8", "9",
      "C", "F", "R",
      "a", "c", "d", "e", "f", "h", "i", "l", "n", "o", "r", "s", "t", "u", "v", "x">>

Ord(c) == CHOOSE i \in DOMAIN Ascii : Ascii[i] = c

Digits == {"0", "1", "2", "3", "4", "5", "6", "7", "8", "9"}

IsDigit(c) == c \in Digits

DigitVal(c) == Ord(c) - Ord("0")

AllDigits(s) == \A i \in DOMAIN s : IsDigit(s[i])

\* s[from:] of Go, with from counted from 0 as in the source.
SliceFrom(s, from) == SubSeq(s, from + 1, Len(s))

\* Go's < on strings: byte-wise lexicographic order.
RECURSIVE StrLess(_, _)
StrLess(a, b) ==
    IF b = << >> THEN FALSE
    ELSE IF a = << >> THEN TRUE
    ELSE IF Head(a) # Head(b) THEN Ord(Head(a)) < Ord(Head(b))
    ELSE StrLess(Tail(a), Tail(b))

\* strings.Split(s, sep) for a one-character separator: always at least one
\* element, empty elements kept.
RECURSIVE Split(_, _)
Split(s, sep) ==
    IF \A i \in DOMAIN s : s[i] # sep THEN <<s>>
    ELSE LET k == CHOOSE i \in DOMAIN s :
                      s[i] = sep /\ \A j \in 1..(i - 1) : s[j] # sep
         IN  <<SubSeq(s, 1, k - 1)>> \o Split(SubSeq(s, k + 1, Len(s)), sep)

\* The value of a string of decimal digits.
RECURSIVE DecimalValue(_)
DecimalValue(s) ==
    IF s = << >> THEN 0
    ELSE 10 * DecimalValue(SubSeq(s, 1, Len(s) - 1)) + DigitVal(s[Len(s)])

\* strconv.Atoi with its error dropped (id, _ := strconv.Atoi(..)): the value
\* of a digit string, and 0 for anything else. The regular expression that
\* guards the call rules out a sign, and the model's tokens are too short to
\* overflow an int.
Atoi(s) == IF s # << >> /\ AllDigits(s) THEN DecimalValue(s) ELSE 0

\* strings.EqualFold on the spellings of a state the model uses.
Fold(s) ==
    CASE s = "Closed" -> "closed"
      [] s = "CLOSED" -> "closed"
      [] s = "Open" -> "open"
      [] OTHER -> s

EqualFold(s, t) == Fold(s) = Fold(t)

-----------------------------------------------------------------------------
(* golang.org/x/mod/semver, as the call semver.Sort(versions) uses it.  The  *)
(* model's strings hold no '-' and no '+', so no version has a prerelease or *)
(* a build suffix.                                                           *)

\* semver's parseInt: digits, with no leading zero unless the number is 0.
IsSemverInt(s) == s # << >> /\ AllDigits(s) /\ (Len(s) > 1 => s[1] # "0")

SemverParts(v) == Split(SliceFrom(v, 1), ".")

\* semver.IsValid: "v" MAJOR [ "." MINOR [ "." PATCH ] ]; the leading "v" is
\* required.
IsValid(v) ==
    /\ v # << >>
    /\ v[1] = "v"
    /\ Len(SemverParts(v)) \in 1..3
    /\ \A i \in DOMAIN SemverParts(v) : IsSemverInt(SemverParts(v)[i])

\* MAJOR, MINOR or PATCH (i = 1, 2, 3) of a valid version; the shorthands
\* vMAJOR and vMAJOR.MINOR stand for .0 in the missing places.
SemverPart(v, i) ==
    IF i <= Len(SemverParts(v)) THEN DecimalValue(SemverParts(v)[i]) ELSE 0

\* semver.Compare: -1, 0 or +1; an invalid version is less than a valid one
\* and all invalid versions compare equal.
Compare(v, w) ==
    IF ~IsValid(v) /\ ~IsValid(w) THEN 0
    ELSE IF ~IsValid(v) THEN -1
    ELSE IF ~IsValid(w) THEN 1
    ELSE IF \A i \in 1..3 : SemverPart(v, i) = SemverPart(w, i) THEN 0
    ELSE LET d == CHOOSE i \in 1..3 :
                      /\ SemverPart(v, i) # SemverPart(w, i)
                      /\ \A j \in 1..(i - 1) : SemverPart(v, j) = SemverPart(w, j)
         IN  IF SemverPart(v, d) < SemverPart(w, d) THEN -1 ELSE 1

\* semver.ByVersion.Less: Compare, and the plain string order where Compare
\* says equal.
ByVersionLess(a, b) ==
    IF Compare(a, b) # 0 THEN Compare(a, b) < 0 ELSE StrLess(a, b)

\* semver.Sort, on the keys of a map (distinct strings, ranged over in no
\* particular order): the ascending sequence.
RECURSIVE SemverSort(_)
SemverSort(S) ==
    IF S = {} THEN << >>
    ELSE LET m == CHOOSE x \in S : \A y \in S \ {x} : ByVersionLess(x, y)
         IN  <<m>> \o SemverSort(S \ {m})

-----------------------------------------------------------------------------
(* getMilestoneId *)

\* r := regexp.MustCompile(`v[0-9]\.[0-9]+\.[0-9]`); r.MatchString(title).
\* The expression is not anchored: it matches anywhere in the title.
VersionRegexMatch(title) ==
    \E i \in DOMAIN title :
        /\ title[i] = "v"
        /\ i + 2 <= Len(title)
        /\ IsDigit(title[i + 1])
        /\ title[i + 2] = "."
        /\ \E j \in (i + 3)..Len(title) :
               /\ \A k \in (i + 3)..j : IsDigit(title[k])
               /\ j + 2 <= Len(title)
               /\ title[j + 1] = "."
               /\ IsDigit(title[j + 2])

\* The condition under which the loop body stores a milestone in the map.
IsCandidate(m) == VersionRegexMatch(m.Title) /\ ~EqualFold(m.State, "closed")

\* The keys of the map milestones: title[1:] of every candidate.
MilestoneKeys(list) ==
    {SliceFrom(list[i].Title, 1) : i \in {j \in DOMAIN list : IsCandidate(list[j])}}

\* milestones[key]: the loop runs in list order and a later assignment to a
\* key replaces an earlier one.
MilestoneOfKey(list, key) ==
    LET at == {i \in DOMAIN list :
                   IsCandidate(list[i]) /\ SliceFrom(list[i].Title, 1) = key}
        last == CHOOSE i \in at : \A j \in at : j <= i
    IN  list[last].Number

ErrList == "retrieving list of milestones"
ErrNone == "no open version milestones were found"

\* A plausible slip: the last of the sorted versions, the highest.
getMilestoneIdHighest(list, listOk) ==
    IF ~listOk THEN [id |-> None, err |-> ErrList]
    ELSE IF MilestoneKeys(list) = {} THEN [id |-> None, err |-> ErrNone]
    ELSE LET versions == SemverSort(MilestoneKeys(list))
         IN  [id |-> Some(MilestoneOfKey(list, versions[Len(versions)])), err |-> ""]

\* getMilestoneId's pair of results (*int, error); listOk says whether the
\* ListMilestones call succeeded.
getMilestoneId(list, listOk) ==
    IF ~listOk THEN [id |-> None, err |-> ErrList]
    ELSE IF MilestoneKeys(list) = {} THEN [id |-> None, err |-> ErrNone]
    ELSE LET versions == SemverSort(MilestoneKeys(list))
         IN  [id |-> Some(MilestoneOfKey(list, versions[1])), err |-> ""]

-----------------------------------------------------------------------------
(* getLinkedIssue *)

\* The strings that (e)?(s)?(d)? and (s)?(d)? can match.
OptESD ==
    {<< >>, <<"e">>, <<"s">>, <<"d">>, <<"e", "s">>, <<"e", "d">>,
     <<"s", "d">>, <<"e", "s", "d">>}

OptSD == {<< >>, <<"s">>, <<"d">>, <<"s", "d">>}

\* s ends with one of the strings of heads followed by one of tails.
EndsWithOneOf(s, heads, tails) ==
    \E i \in DOMAIN s :
        \E h \in heads : \E t \in tails : SubSeq(s, i, Len(s)) = h \o t

\* keywords := regexp.MustCompile(
\*     `^[fF]ix(e)?(s)?(d)?$|[cC]lose(s)?(d)?$|[rR]esolve(s)?(d)?$`)
\* keywords.MatchString(s). The alternation binds loosest: ^ belongs to the
\* first alternative alone, so the second and third match at the end of s
\* wherever they start.
KeywordsMatch(s) ==
    \/ \E h \in {<<"f", "i", "x">>, <<"F", "i", "x">>} :
           \E t \in OptESD : s = h \o t
    \/ EndsWithOneOf(s, {<<"c", "l", "o", "s", "e">>, <<"C", "l", "o", "s", "e">>},
                     OptSD)
    \/ EndsWithOneOf(s, {<<"r", "e", "s", "o", "l", "v", "e">>,
                         <<"R", "e", "s", "o", "l", "v", "e">>}, OptSD)

\* issue := regexp.MustCompile(`^#[0-9]+`); issue.MatchString(s).
IssueMatch(s) == Len(s) >= 2 /\ s[1] = "#" /\ IsDigit(s[2])

\* The for loop over bodySplit from position i (counted from 1), seen being
\* the positions whose token matched keywords so far. bodySplit[i + 1] past
\* the end of the slice is a run-time panic (index out of range).
RECURSIVE ScanFrom(_, _, _)
ScanFrom(bodySplit, i, seen) ==
    IF i > Len(bodySplit)
    THEN [kind |-> "none", id |-> None, inspected |-> seen]
    ELSE IF ~KeywordsMatch(bodySplit[i])
    THEN ScanFrom(bodySplit, i + 1, seen)
    ELSE IF i + 1 > Len(bodySplit)
    THEN [kind |-> "panic", id |-> None, inspected |-> seen \cup {i}]
    ELSE IF IssueMatch(bodySplit[i + 1])
    THEN [kind |-> "some", id |-> Some(Atoi(SliceFrom(bodySplit[i + 1], 1))),
          inspected |-> seen \cup {i}]
    ELSE ScanFrom(bodySplit, i + 1, seen \cup {i})

\* getLinkedIssue's result: kind "some" (a pointer to id), "none" (nil, nil)
\* or "panic". The error of Issues.Get is dropped, and on an error the
\* client returns a nil *Issue, so resp.Body panics (nil dereference).
\* body is resp.Body: None or Some(string).
getLinkedIssue(getOk, body) ==
    IF ~getOk THEN [kind |-> "panic", id |-> None, inspected |-> {}]
    ELSE IF body = None THEN [kind |-> "none", id |-> None, inspected |-> {}]
    ELSE ScanFrom(Split(body[1], " "), 1, {})

-----------------------------------------------------------------------------
(* updateMilestone and run *)

\* pr := GitHubIssue{owner, repo, prId}; one repository, so Owner and Repo
\* are left out.
pr == [Id |-> 10]

\* A tracker call as the run's log keeps it: the function that made it, the
\* operation, the issue number and whether it succeeded. A Get carries the
\* state and milestone it returned, an Edit the milestone it asked for.
Call(by, op, id, ok, state, milestone) ==
    [by |-> by, op |-> op, id |-> id, ok |-> ok, state |-> state,
     milestone |-> milestone]

\* The process ends: 0 from os.Exit(0), 1 from log.Fatal, 2 from a panic.
Exit(code) ==
    /\ pc' = "exited"
    /\ exitCode' = Some(code)
    /\ okRuns' = IF code = 0 THEN okRuns + 1 ELSE okRuns

\* A plausible slip: the state is not looked at.
ShouldEditAnyState(issue) == issue.Milestone = None

\* A plausible slip: the milestone already set is not looked at.
ShouldEditAnyMilestone(issue) == EqualFold(issue.State, "closed")

\* if issue.Milestone == nil && strings.EqualFold(*issue.State, "closed")
ShouldEdit(issue) == issue.Milestone = None /\ EqualFold(issue.State, "closed")

\* g.updateMilestone(ctx, client, milestoneId), and what run() does with its
\* result: on nil it goes on to `then` ("return" is run's return nil), on
\* an error it returns the error. Get fails when the call fails or the
\* tracker has no such issue. On the path that does not edit, the log line
\* reads *issue.Milestone.Title, which panics when Milestone is nil.
updateMilestone(by, id, milestoneId, then) ==
    \E getOk \in BOOLEAN, editOk \in BOOLEAN :
        LET found == getOk /\ id \in DOMAIN records
            get == IF found
                   THEN Call(by, "Get", id, TRUE, records[id].State, records[id].Milestone)
                   ELSE Call(by, "Get", id, FALSE, "", None)
            edit == Call(by, "Edit", id, editOk, "", Some(milestoneId))
            goOn == IF then = "return"
                    THEN Exit(0)
                    ELSE pc' = then /\ UNCHANGED <<exitCode, okRuns>>
        IN  IF ~found
            THEN /\ calls' = Append(calls, get)
                 /\ Exit(1)
                 /\ UNCHANGED <<records, setCount>>
            ELSE IF ShouldEdit(records[id])
            THEN /\ calls' = calls \o <<get, edit>>
                 /\ IF editOk
                    THEN /\ records' = [records EXCEPT ![id].Milestone = Some(milestoneId)]
                         /\ setCount' = [setCount EXCEPT ![id] = @ + 1]
                         /\ goOn
                    ELSE /\ Exit(1)
                         /\ UNCHANGED <<records, setCount>>
            ELSE /\ calls' = Append(calls, get)
                 /\ IF records[id].Milestone = None THEN Exit(2) ELSE goOn
                 /\ UNCHANGED <<records, setCount>>

\* run(): milestoneId, err := pr.getMilestoneId(ctx, client) and the two
\* tests that follow it.
RunGetMilestoneId ==
    /\ pc = "start"
    /\ \E listOk \in BOOLEAN :
           LET res == getMilestoneId(ghMilestones, listOk)
           IN  /\ msRes' = res
               /\ calls' = Append(calls, Call("getMilestoneId", "List", 0, listOk, "", None))
               /\ IF res.err # "" THEN Exit(1)
                  ELSE IF res.id = None THEN Exit(0)
                  ELSE pc' = "applyPR" /\ UNCHANGED <<exitCode, okRuns>>
    /\ UNCHANGED <<ghMilestones, records, liRes, runs, setCount>>

\* run(): pr.updateMilestone(ctx, client, *milestoneId)
RunUpdatePR ==
    /\ pc = "applyPR"
    /\ updateMilestone("pr.updateMilestone", pr.Id, msRes.id[1], "extract")
    /\ UNCHANGED <<ghMilestones, msRes, liRes, runs>>

\* run(): liId, err := pr.getLinkedIssue(ctx, client) and the two tests that
\* follow it.
RunGetLinkedIssue ==
    /\ pc = "extract"
    /\ \E getOk \in BOOLEAN :
           LET res == getLinkedIssue(getOk, records[pr.Id].Body)
           IN  /\ liRes' = res
               /\ calls' = Append(calls,
                      IF getOk
                      THEN Call("getLinkedIssue", "Get", pr.Id, TRUE,
                                records[pr.Id].State, records[pr.Id].Milestone)
                      ELSE Call("getLinkedIssue", "Get", pr.Id, FALSE, "", None))
               /\ IF res.kind = "panic" THEN Exit(2)
                  ELSE IF res.kind = "none" THEN Exit(0)
                  ELSE pc' = "applyLI" /\ UNCHANGED <<exitCode, okRuns>>
    /\ UNCHANGED <<ghMilestones, records, msRes, runs, setCount>>

\* run(): li := GitHubIssue{owner, repo, *liId};
\* li.updateMilestone(ctx, client, *milestoneId); return nil
RunUpdateLinked ==
    /\ pc = "applyLI"
    /\ updateMilestone("li.updateMilestone", liRes.id[1], msRes.id[1], "return")
    /\ UNCHANGED <<ghMilestones, msRes, liRes, runs>>

\* The values run() starts from, before any call.
NoMsRes == [id |-> None, err |-> ""]
NoLiRes == [kind |-> "", id |-> None, inspected |-> {}]

MaxRuns == 2

\* The workflow starts the program again for the same PR; the tracker keeps
\* what the earlier runs wrote.
StartRun ==
    /\ pc = "exited"
    /\ runs < MaxRuns
    /\ runs' = runs + 1
    /\ pc' = "start"
    /\ msRes' = NoMsRes
    /\ liRes' = NoLiRes
    /\ calls' = << >>
    /\ exitCode' = None
    /\ UNCHANGED <<ghMilestones, records, okRuns, setCount>>

-----------------------------------------------------------------------------
(* The inputs: milestone titles, PR bodies, tracker records *)

\* "v0.9.0"
T_V090 == <<"v", "0", ".", "9", ".", "0">>

\* "v1.0.0"
T_V100 == <<"v", "1", ".", "0", ".", "0">>

\* "v1.2.0"
T_V120 == <<"v", "1", ".", "2", ".", "0">>

\* "v1.10.0"
T_V1100 == <<"v", "1", ".", "1", "0", ".", "0">>

\* "v2.0.0"
T_V200 == <<"v", "2", ".", "0", ".", "0">>

\* "next"
T_Next == <<"n", "e", "x", "t">>

\* "xv1.10.0"
T_XV1100 == <<"x", "v", "1", ".", "1", "0", ".", "0">>

\* "v2.0.0 rc"
T_V200rc == <<"v", "2", ".", "0", ".", "0", " ", "r", "c">>

\* "Fixes"
W_Fixes == <<"F", "i", "x", "e", "s">>

\* "fix"
W_Fix == <<"f", "i", "x">>

\* "Fixe"
W_Fixe == <<"F", "i", "x", "e">>

\* "Closes"
W_Closes == <<"C", "l", "o", "s", "e", "s">>

\* "closed"
W_Closed == <<"c", "l", "o", "s", "e", "d">>

\* "resolve"
W_Resolve == <<"r", "e", "s", "o", "l", "v", "e">>

\* "unresolved"
W_Unresolved == <<"u", "n", "r", "e", "s", "o", "l", "v", "e", "d">>

\* "this"
W_This == <<"t", "h", "i", "s">>

\* "to"
W_To == <<"t", "o">>

\* "#42"
W_Ref42 == <<"#", "4", "2">>

\* "#7"
W_Ref7 == <<"#", "7">>

\* "#10"
W_Ref10 == <<"#", "1", "0">>

\* "#42,"
W_Ref42Comma == <<"#", "4", "2", ",">>

\* A list of milestones as the tracker returns it: each entry of l gets the
\* number of its place, so numbers are distinct.
WithNumbers(l) ==
    [i \in DOMAIN l |-> [Title |-> l[i].Title, State |-> l[i].State, Number |-> i]]

\* All lists of at most max milestones with titles and states from the sets.
MilestoneLists(titles, states, max) ==
    {WithNumbers(l) : l \in UNION {[1..n -> [Title : titles, State : states]] : n \in 0..max}}

\* The words joined by single spaces.
RECURSIVE Join(_)
Join(words) ==
    IF words = << >> THEN << >>
    ELSE IF Len(words) = 1 THEN words[1]
    ELSE words[1] \o <<" ">> \o Join(Tail(words))

Titles == {T_V120, T_V1100, T_V200, T_Next, T_XV1100, T_V200rc}

MilestoneStates == {"open", "closed", "Closed"}

MaxMilestones == 3

Words ==
    {W_Fixes, W_Fix, W_Fixe, W_Closes, W_Closed, W_Resolve, W_Unresolved, W_This,
     W_To, W_Ref42, W_Ref7, W_Ref42Comma}

MaxWords == 3

\* Every body of at most MaxWords words, and the missing body (nil).
Bodies ==
    {None} \cup {Some(Join(w)) : w \in UNION {[1..n -> Words] : n \in 0..MaxWords}}

\* The tracker's issues and PRs: the PR and the issue it may link to.
IssueIds == {7, pr.Id}

IssueStates == {"open", "closed"}

\* No milestone, or one assigned before the run (its number is on no list of
\* the model).
Assigned == {None, Some(99)}

\* The tracker's records: the PR in one of prs, the issue in any state.
Records(prs) ==
    {[i \in IssueIds |->
         IF i = pr.Id THEN p ELSE [State |-> is, Milestone |-> im, Body |-> None]] :
     p \in prs, is \in IssueStates, im \in Assigned}

RunTitles == {T_V090, T_V100, T_Next}

MaxRunMilestones == 2

RunBodies ==
    {None,
     Some(Join(<<W_Closes, W_Ref7>>)),
     Some(Join(<<W_Closes, W_Ref10>>)),
     Some(Join(<<W_To, W_Ref7>>)),
     Some(Join(<<W_This, W_Closes>>)),
     Some(Join(<<W_Fix, W_Ref42>>))}

-----------------------------------------------------------------------------
(* Specifications *)

InitRun ==
    /\ pc = "start"
    /\ msRes = NoMsRes
    /\ liRes = NoLiRes
    /\ calls = << >>
    /\ exitCode = None
    /\ runs = 1
    /\ okRuns = 0
    /\ setCount = [i \in IssueIds |-> 0]

\* Runs of the program, one after another, against one tracker.
Init ==
    /\ ghMilestones \in MilestoneLists(RunTitles, IssueStates, MaxRunMilestones)
    /\ records \in Records([State : IssueStates, Milestone : Assigned, Body : RunBodies])
    /\ InitRun

Next ==
    \/ RunGetMilestoneId
    \/ RunUpdatePR
    \/ RunGetLinkedIssue
    \/ RunUpdateLinked
    \/ StartRun

Spec == Init /\ [][Next]_vars

\* getMilestoneId on every list of at most MaxMilestones milestones.
InitMilestone ==
    /\ ghMilestones \in MilestoneLists(Titles, MilestoneStates, MaxMilestones)
    /\ records \in Records({[State |-> "closed", Milestone |-> None, Body |-> None]})
    /\ InitRun

NextMilestone == RunGetMilestoneId

SpecMilestone == InitMilestone /\ [][NextMilestone]_vars

\* getLinkedIssue on every body of at most MaxWords words, from the point of
\* run() that calls it: the milestone is resolved and the PR has it.
InitLinked ==
    /\ ghMilestones = WithNumbers(<<[Title |-> T_V100, State |-> "open"]>>)
    /\ records \in Records([State : {"closed"}, Milestone : {Some(1)}, Body : Bodies])
    /\ pc = "extract"
    /\ msRes = [id |-> Some(1), err |-> ""]
    /\ liRes = NoLiRes
    /\ calls = << >>
    /\ exitCode = None
    /\ runs = 1
    /\ okRuns = 0
    /\ setCount = [i \in IssueIds |-> 0]

NextLinked == RunGetLinkedIssue \/ RunUpdateLinked

SpecLinked == InitLinked /\ [][NextLinked]_vars

-----------------------------------------------------------------------------
(* What the claims speak of *)

\* The title is one prefix character followed by DIGIT.DIGIT+.DIGIT+ and
\* nothing else.
WholeTitleVersion(title) ==
    LET parts == Split(SliceFrom(title, 1), ".")
    IN  /\ Len(title) >= 1
        /\ Len(parts) = 3
        /\ Len(parts[1]) = 1
        /\ \A i \in 1..3 : parts[i] # << >> /\ AllDigits(parts[i])

\* (major, minor, patch) of a version title, as numbers.
VersionTriple(title) ==
    LET parts == Split(SliceFrom(title, 1), ".")
    IN  <<DecimalValue(parts[1]), DecimalValue(parts[2]), DecimalValue(parts[3])>>

\* a is lower than b: major first, then minor, then patch.
TripleLess(a, b) ==
    \/ a[1] < b[1]
    \/ a[1] = b[1] /\ a[2] < b[2]
    \/ a[1] = b[1] /\ a[2] = b[2] /\ a[3] < b[3]

\* The places of the list that hold an open, version-titled milestone.
OpenVersionTitled(list) ==
    {i \in DOMAIN list :
        WholeTitleVersion(list[i].Title) /\ ~EqualFold(list[i].State, "closed")}

\* getMilestoneId has returned to run(), and its list call succeeded.
Resolved == pc # "start" /\ calls # << >> /\ calls[1].ok

\* C1: when the list holds at least one open version-titled milestone,
\* getMilestoneId returns the number of the one whose (major, minor, patch)
\* is lowest as numbers. Stated for the lists where that milestone is
\* unique and every title the resolver's pattern matches is a version title
\* (C2 is about the others).
C1_LowestNumericVersion ==
    (/\ Resolved
     /\ OpenVersionTitled(ghMilestones) # {}
     /\ \A i \in DOMAIN ghMilestones :
            VersionRegexMatch(ghMilestones[i].Title)
                => WholeTitleVersion(ghMilestones[i].Title)
     /\ \A i, j \in OpenVersionTitled(ghMilestones) :
            i # j => ghMilestones[i].Title # ghMilestones[j].Title)
    => \E i \in OpenVersionTitled(ghMilestones) :
           /\ msRes.id = Some(ghMilestones[i].Number)
           /\ \A j \in OpenVersionTitled(ghMilestones) \ {i} :
                  TripleLess(VersionTriple(ghMilestones[i].Title),
                             VersionTriple(ghMilestones[j].Title))

\* C2: the id getMilestoneId returns is the number of a milestone of the
\* list that is not closed (whatever the case of the word) and whose whole
\* title is one prefix character followed by DIGIT.DIGIT+.DIGIT+.
C2_ReturnedIsOpenVersionTitled ==
    (Resolved /\ msRes.id # None)
    => \E i \in OpenVersionTitled(ghMilestones) :
           msRes.id = Some(ghMilestones[i].Number)

\* C3: when the list call succeeds and the list holds no open version-titled
\* milestone (none by the claim's reading, none by the resolver's either),
\* the run ends with exit status 0 and has made no Edit call.
C3_NoOpenMilestoneExitsCleanly ==
    (/\ pc = "exited"
     /\ calls[1].ok
     /\ OpenVersionTitled(ghMilestones) = {}
     /\ MilestoneKeys(ghMilestones) = {})
    => /\ exitCode = Some(0)
       /\ \A k \in DOMAIN calls : calls[k].op # "Edit"

\* The calls of the log made by updateMilestone, on the PR or on the linked
\* issue.
ByUpdate == {"pr.updateMilestone", "li.updateMilestone"}

\* C4: every Edit call of a run, on the PR or on the linked issue, directly
\* follows updateMilestone's own fetch of the same record, and that fetch
\* succeeded and showed no milestone and the state "closed".
C4_EditOnlyClosedUnmilestoned ==
    \A k \in DOMAIN calls :
        calls[k].op = "Edit"
        => /\ calls[k].by \in ByUpdate
           /\ k > 1
           /\ calls[k - 1].op = "Get"
           /\ calls[k - 1].by = calls[k].by
           /\ calls[k - 1].id = calls[k].id
           /\ calls[k - 1].ok
           /\ calls[k - 1].milestone = None
           /\ calls[k - 1].state = "closed"

\* One run has edited the PR and the linked issue, in a tracker that also
\* holds an open record or a record that had its milestone already.
C4_Witness ==
    /\ \E k \in DOMAIN calls : calls[k].op = "Edit" /\ calls[k].id = pr.Id
    /\ \E k \in DOMAIN calls : calls[k].op = "Edit" /\ calls[k].id # pr.Id

\* C5: when the record updateMilestone fetched does not qualify (it has a
\* milestone, or it is not closed), updateMilestone returns nil and the run
\* goes on: after the PR to the linked-issue extraction, after the linked
\* issue to a return with exit status 0.
C5_NoApplyIsNotAnError ==
    \A k \in DOMAIN calls :
        (/\ k = Len(calls)
         /\ calls[k].by \in ByUpdate
         /\ calls[k].op = "Get"
         /\ calls[k].ok
         /\ ~(calls[k].milestone = None /\ EqualFold(calls[k].state, "closed")))
        => IF calls[k].by = "pr.updateMilestone"
           THEN pc = "extract"
           ELSE pc = "exited" /\ exitCode = Some(0)

\* The words of the PR's body, when it has one.
BodyWords == Split(records[pr.Id].Body[1], " ")

\* The claimed family of closing keywords: fix, fixes, fixed, close, closes,
\* closed, resolve, resolves, resolved, the first letter in either case.
ClaimedKeyword(w) ==
    \E first \in {<<"f">>, <<"F">>, <<"c">>, <<"C">>, <<"r">>, <<"R">>} :
        \E ending \in {<< >>, <<"s">>, <<"d">>} :
            LET stem == CASE first \in {<<"f">>, <<"F">>} ->
                                 IF ending = << >> THEN <<"i", "x">>
                                                   ELSE <<"i", "x", "e">>
                          [] first \in {<<"c">>, <<"C">>} -> <<"l", "o", "s", "e">>
                          [] OTHER -> <<"e", "s", "o", "l", "v", "e">>
            IN  w = first \o stem \o ending

\* getLinkedIssue has been called on a PR that was fetched and has a body.
Extracted ==
    /\ liRes.kind # ""
    /\ \E k \in DOMAIN calls : calls[k].by = "getLinkedIssue" /\ calls[k].ok
    /\ records[pr.Id].Body # None

\* The places of the body where a word the scan takes for a keyword is
\* followed by an issue reference.
Pairs ==
    {i \in 1..(Len(BodyWords) - 1) :
        KeywordsMatch(BodyWords[i]) /\ IssueMatch(BodyWords[i + 1])}

\* C6: when the last word of the body is a closing keyword and no keyword
\* before it is followed by a reference, getLinkedIssue returns None without
\* crashing and the run ends with exit status 0.
C6_KeywordLastIsNoMatch ==
    (/\ Extracted
     /\ ClaimedKeyword(BodyWords[Len(BodyWords)])
     /\ Pairs = {})
    => /\ liRes.kind = "none"
       /\ pc = "exited"
       /\ exitCode = Some(0)

\* The digits that follow the '#' of a reference, up to the first character
\* that is no digit.
LeadingDigits(ref) ==
    LET rest == SliceFrom(ref, 1)
        n == CHOOSE m \in 0..Len(rest) :
                 /\ \A i \in 1..m : IsDigit(rest[i])
                 /\ (m < Len(rest) => ~IsDigit(rest[m + 1]))
    IN  SubSeq(rest, 1, n)

\* C7: when the scan ends without a crash (C6 is about the crash), the
\* result is the integer denoted by the digits of the reference that follows
\* the first keyword followed by a reference, whatever comes after the
\* digits, and no later word has been inspected; with no such pair the
\* result is None.
C7_FirstReferenceIsReturned ==
    (Extracted /\ liRes.kind # "panic")
    => IF Pairs = {}
       THEN liRes.kind = "none"
       ELSE LET first == CHOOSE i \in Pairs : \A j \in Pairs : i <= j
            IN  /\ liRes.kind = "some"
                /\ liRes.id = Some(DecimalValue(LeadingDigits(BodyWords[first + 1])))
                /\ \A i \in liRes.inspected : i <= first

\* The last place of the body the scan looked at: where it returned or
\* crashed, or the end.
LastScanned ==
    IF liRes.kind = "none" THEN Len(BodyWords)
    ELSE CHOOSE i \in liRes.inspected : \A j \in liRes.inspected : j <= i

\* C8: among the words the scan looked at, the ones that made it inspect the
\* following word are exactly the words of the claimed keyword family
\* (stated for the scans that end without a crash; C6 is about the crash).
C8_KeywordFamilyIsExact ==
    (Extracted /\ liRes.kind # "panic")
    => \A i \in 1..LastScanned :
           (i \in liRes.inspected) <=> ClaimedKeyword(BodyWords[i])

\* The step of run() that makes a call of the log.
StepOf(by) ==
    CASE by = "getMilestoneId" -> 1
      [] by = "pr.updateMilestone" -> 2
      [] by = "getLinkedIssue" -> 3
      [] by = "li.updateMilestone" -> 4

\* The steps of a run come in the order resolve, apply to the PR, extract,
\* apply to the linked issue; the milestone is resolved by the one list call
\* that opens the run; an Edit on the linked issue comes after a PR apply
\* step in which no call failed, and every Edit carries the resolved id.
RunOrder ==
    /\ \A j, k \in DOMAIN calls : j < k => StepOf(calls[j].by) <= StepOf(calls[k].by)
    /\ \A k \in DOMAIN calls : calls[k].op = "List" <=> k = 1
    /\ \A k \in DOMAIN calls :
           calls[k].op = "Edit" => calls[k].milestone = msRes.id /\ msRes.id # None
    /\ \A k \in DOMAIN calls :
           calls[k].by = "li.updateMilestone"
           => /\ \E j \in 1..(k - 1) : calls[j].by = "pr.updateMilestone"
              /\ \E j \in 1..(k - 1) : calls[j].by = "getLinkedIssue"
              /\ \A j \in 1..(k - 1) : calls[j].ok
              /\ \A j, e \in DOMAIN calls :
                     (calls[j].op = "Edit" /\ calls[e].op = "Edit")
                         => calls[j].milestone = calls[e].milestone

\* The record had no milestone when the first run started: no Edit has set
\* one, or it still has none.
InitiallyUnmilestoned(i) == records[i].Milestone = None \/ setCount[i] > 0

\* PR #10 closed and unmilestoned with body "Closes #7", issue #7 closed and
\* unmilestoned, the open milestones v0.9.0 and v1.0.0, in the first run.
Scenario ==
    /\ runs = 1
    /\ Len(ghMilestones) = 2
    /\ {ghMilestones[1].Title, ghMilestones[2].Title} = {T_V090, T_V100}
    /\ \A i \in DOMAIN ghMilestones : ghMilestones[i].State = "open"
    /\ records[pr.Id].Body = Some(Join(<<W_Closes, W_Ref7>>))
    /\ \A i \in IssueIds : records[i].State = "closed" /\ InitiallyUnmilestoned(i)

\* The number of the milestone titled v0.9.0.
NumberOfV090 ==
    ghMilestones[CHOOSE i \in DOMAIN ghMilestones : ghMilestones[i].Title = T_V090].Number

PriorOk == okRuns > (IF pc = "exited" /\ exitCode = Some(0) THEN 1 ELSE 0)

\* C10: a run that follows a successful run makes no Edit call and changes
\* no record of the tracker, and over all runs no record's milestone is set
\* more than once.
C10_RepeatedRunsIdempotent ==
    /\ [](PriorOk => \A k \in DOMAIN calls : calls[k].op # "Edit")
    /\ [](\A i \in IssueIds : setCount[i] <= 1)
    /\ [][PriorOk => records' = records]_vars

\* A second run has ended successfully after a first one that set the
\* milestone of the PR and of the linked issue.
C10_Witness ==
    /\ runs = 2
    /\ PriorOk
    /\ pc = "exited"
    /\ exitCode = Some(0)
    /\ liRes.kind = "some"
    /\ \A i \in IssueIds : setCount[i] = 1

=============================================================================
